---- MODULE Spec2Model ----
(***************************************************************************)
(* A model of tinyvec's ArrayVec (src/src/arrayvec.rs): a length counter   *)
(* over a fixed array whose slots always hold a value, the operations that *)
(* move values between slots with core::mem::replace, and the draining     *)
(* iterator that forwards to ArrayVec::remove.                             *)
(*                                                                         *)
(* A container is a record [len, data]; data maps the slot indices         *)
(* 0..CAPACITY-1 to items.  Every operation is an operator that returns    *)
(* [av, ret, fault]: the container as the call leaves it, the returned     *)
(* value (<<>> for none/unit, <<x>> for x) and the panic it ended in       *)
(* ("none" when it returned).  A panic keeps what the call had already     *)
(* written.                                                                *)
(***************************************************************************)
EXTENDS Integers, Sequences, FiniteSets

\* ------------------------------------------------------------- bounds
\* A::CAPACITY of the backing array type.
CAPACITY == 3
\* Longest slice handed to extend_from_slice.
MaxSlice == 2
\* Longest argument container handed to append.
MaxOther == 2

\* usize arithmetic is modulo 2^16 (the narrowest usize Rust targets have).
UsizeModulus == 65536

\* A::Item: the code only moves items and asks for the default one, so three
\* distinguishable values stand for the type.
Default == "d"
Items == {Default, "a", "b"}
Slots == 0..(CAPACITY - 1)
\* usize arguments the callers pass: in range, one past, two past.
Args == 0..(CAPACITY + 1)

None == <<>>
Some(x) == <<x>>

R(v, ret, fault) == [av |-> v, ret |-> ret, fault |-> fault]

\* ------------------------------------------------------------- construction
\* ArrayVec::new / Default: length 0, every slot the default item.
new == [len |-> 0, data |-> [i \in Slots |-> Default]]

\* From<A>: the whole array is live.
from(data) == [len |-> CAPACITY, data |-> data]

\* try_from_array_len: Ok(Self { data, len }) or Err(data).
\* try_from_array_len that refuses a length equal to the capacity.
try_from_array_len_strict(data, len) ==
  IF len < CAPACITY
    THEN [ok |-> TRUE, av |-> [len |-> len, data |-> data], err |-> None]
    ELSE [ok |-> FALSE, av |-> new, err |-> Some(data)]

try_from_array_len(data, len) ==
  IF len <= CAPACITY
    THEN [ok |-> TRUE, av |-> [len |-> len, data |-> data], err |-> None]
    ELSE [ok |-> FALSE, av |-> new, err |-> Some(data)]

\* from_array_len: the fallible form, panicking on Err.
from_array_len(data, len) ==
  LET t == try_from_array_len(data, len)
  IN  IF t.ok THEN R(t.av, None, "none")
               ELSE R(new, None, "capacity_overflow")

\* Deref / DerefMut: &data[..len] panics when len exceeds the array.
DerefOk(v) == v.len <= CAPACITY

\* The live prefix as a sequence (what as_slice shows).
as_slice(v) == [k \in 1..v.len |-> v.data[k - 1]]

\* ------------------------------------------------------------- push / pop
\* push that writes before it checks the capacity.
push_write_first(v, val) ==
  IF v.len < CAPACITY
    THEN R([len |-> v.len + 1, data |-> [v.data EXCEPT ![v.len] = val]],
           None, "none")
    ELSE R([v EXCEPT !.data[CAPACITY - 1] = val], None, "capacity_overflow")

push(v, val) ==
  IF v.len < CAPACITY
    THEN R([len |-> v.len + 1, data |-> [v.data EXCEPT ![v.len] = val]],
           None, "none")
    ELSE R(v, None, "capacity_overflow")

\* pop that hands out the default it wrote instead of the value it took.
pop_default(v) ==
  IF v.len > 0
    THEN LET n == v.len - 1
         IN  IF n < CAPACITY
               THEN R([len |-> n, data |-> [v.data EXCEPT ![n] = Default]],
                      Some(Default), "none")
               ELSE R([v EXCEPT !.len = n], None, "out_of_bounds")
    ELSE R(v, None, "none")

pop(v) ==
  IF v.len > 0
    THEN LET n == v.len - 1
         IN  IF n < CAPACITY
               THEN R([len |-> n, data |-> [v.data EXCEPT ![n] = Default]],
                      Some(v.data[n]), "none")
               \* the counter is already decremented when the index panics
               ELSE R([v EXCEPT !.len = n], None, "out_of_bounds")
    ELSE R(v, None, "none")

\* ------------------------------------------------------------- remove
\* for target in targets.iter_mut().rev() { spare = replace(target, spare) }
\* over the slots index..len-1, visited from j downwards.
RECURSIVE RemoveLoop(_, _, _, _)
RemoveLoop(data, j, index, spare) ==
  IF j < index
    THEN [data |-> data, spare |-> spare]
    ELSE RemoveLoop([data EXCEPT ![j] = spare], j - 1, index, data[j])

\* self.len -= 1: panics on 0 with overflow checks, wraps without.
remove(v, index, checks) ==
  IF ~DerefOk(v) \/ index > v.len
    THEN R(v, None, "out_of_bounds")
    ELSE LET l == RemoveLoop(v.data, v.len - 1, index, Default)
         IN  IF v.len = 0 /\ checks
               THEN R([v EXCEPT !.data = l.data], None, "arith_overflow")
               ELSE R([len |-> (v.len - 1) % UsizeModulus, data |-> l.data],
                      Some(l.spare), "none")

\* ------------------------------------------------------------- insert
\* for target in targets.iter_mut() { temp = replace(target, temp) }
\* over the slots index..len-1, visited from j upwards.
RECURSIVE InsertLoop(_, _, _, _)
InsertLoop(data, j, len, temp) ==
  IF j >= len
    THEN [data |-> data, temp |-> temp]
    ELSE InsertLoop([data EXCEPT ![j] = temp], j + 1, len, data[j])

\* insert that moves the old occupant of index to the end instead of shifting.
insert_swap(v, index, item) ==
  IF index < v.len
    THEN IF ~DerefOk(v)
           THEN R(v, None, "out_of_bounds")
           ELSE LET p == push(v, v.data[index])
                IN  IF p.fault # "none"
                      THEN p
                      ELSE R([p.av EXCEPT !.data[index] = item], None, "none")
    ELSE IF index = v.len
           THEN push(v, item)
           ELSE R(v, None, "out_of_bounds")

\* insert that treats an index beyond len as len.
insert_clamped(v, index, item) ==
  IF index < v.len
    THEN IF ~DerefOk(v)
           THEN R(v, None, "out_of_bounds")
           ELSE LET l == InsertLoop(v.data, index, v.len, item)
                IN  push([v EXCEPT !.data = l.data], l.temp)
    ELSE push(v, item)

insert(v, index, item) ==
  IF index < v.len
    THEN IF ~DerefOk(v)
           THEN R(v, None, "out_of_bounds")
           ELSE LET l == InsertLoop(v.data, index, v.len, item)
                IN  push([v EXCEPT !.data = l.data], l.temp)
    ELSE IF index = v.len
           THEN push(v, item)
           ELSE R(v, None, "out_of_bounds")

\* ------------------------------------------------------------- swap_remove
swap_remove(v, index) ==
  IF ~(index < v.len)
    THEN R(v, None, "out_of_bounds")
    ELSE LET p == pop(v)
         IN  IF p.fault # "none" \/ index = v.len - 1
               THEN p
               ELSE R([p.av EXCEPT !.data[index] = p.ret[1]],
                      Some(p.av.data[index]), "none")

\* ------------------------------------------------------------- truncate / clear
\* while self.len > new_len { self.pop(); }
RECURSIVE TruncateLoop(_, _)
TruncateLoop(v, new_len) ==
  IF v.len > new_len
    THEN LET p == pop(v)
         IN  IF p.fault # "none" THEN R(p.av, None, p.fault)
                                 ELSE TruncateLoop(p.av, new_len)
    ELSE R(v, None, "none")

Min(a, b) == IF a < b THEN a ELSE b

\* needs_drop::<A::Item>() chooses between popping and cutting the counter.
truncate(v, new_len, needs_drop) ==
  IF needs_drop
    THEN TruncateLoop(v, new_len)
    ELSE R([v EXCEPT !.len = Min(v.len, new_len)], None, "none")

clear(v, needs_drop) == truncate(v, 0, needs_drop)

\* ------------------------------------------------------------- resize
\* while self.len < new_len { self.push(new_val.clone()) }
RECURSIVE ResizeLoop(_, _, _)
ResizeLoop(v, new_len, new_val) ==
  IF v.len < new_len
    THEN LET p == push(v, new_val)
         IN  IF p.fault # "none" THEN p ELSE ResizeLoop(p.av, new_len, new_val)
    ELSE R(v, None, "none")

resize(v, new_len, new_val, needs_drop) ==
  IF new_len < v.len THEN truncate(v, new_len, needs_drop)
  ELSE IF new_len = v.len THEN R(v, None, "none")
  ELSE ResizeLoop(v, new_len, new_val)

\* A generator closure is the cycle of values its calls return: a constant
\* one (Default::default) or one that changes per call (the doc example's
\* || { p *= 2; p }).  Call(f, k) is what the k-th call returns, k >= 1.
Generators == { <<x>> : x \in Items } \cup { <<"a", "b">> }
Call(f, k) == f[((k - 1) % Len(f)) + 1]

\* while self.len < new_len { self.push(f()) }, k calls made so far
RECURSIVE ResizeWithLoop(_, _, _, _)
ResizeWithLoop(v, new_len, f, k) ==
  IF v.len < new_len
    THEN LET p == push(v, Call(f, k + 1))
         IN  IF p.fault # "none" THEN p
                                 ELSE ResizeWithLoop(p.av, new_len, f, k + 1)
    ELSE R(v, None, "none")

resize_with(v, new_len, f, needs_drop) ==
  IF new_len < v.len THEN truncate(v, new_len, needs_drop)
  ELSE IF new_len = v.len THEN R(v, None, "none")
  ELSE ResizeWithLoop(v, new_len, f, 0)

\* ------------------------------------------------------------- retain
\* acceptable(x) is x \in keep.  self[i] goes through Deref.  calls counts
\* the calls of acceptable made so far.
RECURSIVE RetainLoop(_, _, _, _, _)
RetainLoop(v, i, keep, checks, calls) ==
  IF i < v.len
    THEN IF ~DerefOk(v)
           THEN [av |-> v, ret |-> None, fault |-> "out_of_bounds",
                 calls |-> calls]
           ELSE IF v.data[i] \notin keep
                  THEN LET r == remove(v, i, checks)
                       IN  IF r.fault # "none"
                             THEN [av |-> r.av, ret |-> None,
                                   fault |-> r.fault, calls |-> calls + 1]
                             ELSE RetainLoop(r.av, i, keep, checks, calls + 1)
                  ELSE RetainLoop(v, i + 1, keep, checks, calls + 1)
    ELSE [av |-> v, ret |-> None, fault |-> "none", calls |-> calls]

retain(v, keep, checks) == RetainLoop(v, 0, keep, checks, 0)

\* ------------------------------------------------------------- set_len
\* set_len that resets the slots it leaves outside the live prefix.
set_len_clearing(v, new_len) ==
  IF new_len > CAPACITY
    THEN R(v, None, "capacity_overflow")
    ELSE R([len  |-> new_len,
            data |-> [k \in Slots |-> IF k < new_len THEN v.data[k]
                                                     ELSE Default]],
           None, "none")

set_len(v, new_len) ==
  IF new_len > CAPACITY
    THEN R(v, None, "capacity_overflow")
    ELSE R([v EXCEPT !.len = new_len], None, "none")

\* ------------------------------------------------------------- extend_from_slice
\* for i in sli { self.push(i.clone()) }
RECURSIVE ExtendLoop(_, _, _)
ExtendLoop(v, sli, k) ==
  IF k > Len(sli)
    THEN R(v, None, "none")
    ELSE LET p == push(v, sli[k])
         IN  IF p.fault # "none" THEN p ELSE ExtendLoop(p.av, sli, k + 1)

extend_from_slice(v, sli) == ExtendLoop(v, sli, 1)

\* ------------------------------------------------------------- split_off
\* for (m, t) in moves.iter_mut().zip(targets) {
\*   replace(t, replace(m, default)) }  with m = slot at+k, t = slot k of new
RECURSIVE SplitLoop(_, _, _, _, _)
SplitLoop(src, dst, k, at, len) ==
  IF at + k >= len \/ k >= CAPACITY
    THEN [src |-> src, dst |-> dst]
    ELSE SplitLoop([src EXCEPT ![at + k] = Default],
                   [dst EXCEPT ![k] = src[at + k]], k + 1, at, len)

split_off(v, at) ==
  IF at > v.len \/ ~DerefOk(v)
    THEN [av |-> v, new |-> new, fault |-> "out_of_bounds"]
    ELSE LET l == SplitLoop(v.data, new.data, 0, at, v.len)
         IN  [av    |-> [len |-> at, data |-> l.src],
              new   |-> [len |-> v.len - at, data |-> l.dst],
              fault |-> "none"]

\* ------------------------------------------------------------- drain
\* A range is its two bounds: [kind, x] with kind Included, Excluded, Unbounded.
Bound(kind, x) == [kind |-> kind, x |-> x]
Unbounded == Bound("Unbounded", 0)
StartBounds == {Unbounded} \cup { Bound("Included", x) : x \in Args }
                           \cup { Bound("Excluded", x) : x \in Slots }
EndBounds == {Unbounded} \cup { Bound("Excluded", x) : x \in Args }
                         \cup { Bound("Included", x) : x \in Slots }
Ranges == [start : StartBounds, end : EndBounds]

RangeStart(range) ==
  CASE range.start.kind = "Included"  -> range.start.x
    [] range.start.kind = "Excluded"  -> (range.start.x + 1) % UsizeModulus
    [] range.start.kind = "Unbounded" -> 0

RangeEnd(v, range) ==
  CASE range.end.kind = "Included"  -> (range.end.x + 1) % UsizeModulus
    [] range.end.kind = "Excluded"  -> range.end.x
    [] range.end.kind = "Unbounded" -> v.len

NoDrain == [active |-> FALSE, target_index |-> 0, target_count |-> 0]

\* drain with its two asserts in the other order.
drain_end_first(v, range) ==
  LET start == RangeStart(range)
      end   == RangeEnd(v, range)
  IN  IF ~(end <= v.len)
        THEN [it |-> NoDrain, fault |-> "out_of_bounds"]
        ELSE IF ~(start <= end)
               THEN [it |-> NoDrain, fault |-> "invalid_range"]
               ELSE [it |-> [active |-> TRUE, target_index |-> start,
                             target_count |-> end - start],
                     fault |-> "none"]

\* The two asserts, in the source's order, then the ArrayVecDrain.
drain(v, range) ==
  LET start == RangeStart(range)
      end   == RangeEnd(v, range)
  IN  IF ~(start <= end)
        THEN [it |-> NoDrain, fault |-> "invalid_range"]
        ELSE IF ~(end <= v.len)
               THEN [it |-> NoDrain, fault |-> "out_of_bounds"]
               ELSE [it |-> [active |-> TRUE, target_index |-> start,
                             target_count |-> end - start],
                     fault |-> "none"]

\* ArrayVecDrain::next on the parent v.
\* ArrayVecDrain::next that removes without counting the step.
DrainNextKeepCount(v, it, checks) ==
  IF it.target_count > 0
    THEN LET r == remove(v, it.target_index, checks)
         IN  [av |-> r.av, it |-> it,
              ret |-> IF r.fault # "none" THEN None ELSE r.ret,
              fault |-> r.fault]
    ELSE [av |-> v, it |-> it, ret |-> None, fault |-> "none"]

DrainNextOf(v, it, checks) ==
  IF it.target_count > 0
    THEN LET r == remove(v, it.target_index, checks)
         IN  IF r.fault # "none"
               THEN [av |-> r.av, it |-> it, ret |-> None, fault |-> r.fault]
               ELSE [av |-> r.av,
                     it |-> [it EXCEPT !.target_count = it.target_count - 1],
                     ret |-> r.ret, fault |-> "none"]
    ELSE [av |-> v, it |-> it, ret |-> None, fault |-> "none"]

\* Drop for ArrayVecDrain: for _ in self {}
RECURSIVE DrainDropOf(_, _, _)
DrainDropOf(v, it, checks) ==
  LET n == DrainNextOf(v, it, checks)
  IN  IF n.fault # "none" \/ n.ret = None
        THEN [av |-> n.av, it |-> n.it, fault |-> n.fault]
        ELSE DrainDropOf(n.av, n.it, checks)

\* ------------------------------------------------------------- append
\* for item in other.drain(..) { self.push(item) }; a panicking push unwinds
\* through the drain's Drop.
RECURSIVE AppendLoop(_, _, _, _)
AppendLoop(v, other, it, checks) ==
  LET n == DrainNextOf(other, it, checks)
  IN  IF n.fault # "none"
        THEN [av |-> v, other |-> n.av, fault |-> n.fault]
        ELSE IF n.ret = None
               THEN [av |-> v, other |-> n.av, fault |-> "none"]
               ELSE LET p == push(v, n.ret[1])
                    IN  IF p.fault # "none"
                          THEN [av |-> p.av,
                                other |-> DrainDropOf(n.av, n.it, checks).av,
                                fault |-> p.fault]
                          ELSE AppendLoop(p.av, n.av, n.it, checks)

FullRange == [start |-> Unbounded, end |-> Unbounded]

\* append that empties other with pop, last element first.
RECURSIVE AppendPopLoop(_, _)
AppendPopLoop(v, other) ==
  LET n == pop(other)
  IN  IF n.fault # "none" \/ n.ret = None
        THEN [av |-> v, other |-> n.av, fault |-> n.fault]
        ELSE LET p == push(v, n.ret[1])
             IN  IF p.fault # "none"
                   THEN [av |-> p.av, other |-> n.av, fault |-> p.fault]
                   ELSE AppendPopLoop(p.av, n.av)

append_popping(v, other, checks) == AppendPopLoop(v, other)

append(v, other, checks) ==
  LET d == drain(other, FullRange)
  IN  IF d.fault # "none"
        THEN [av |-> v, other |-> other, fault |-> d.fault]
        ELSE AppendLoop(v, other, d.it, checks)

\* ------------------------------------------------------------- ArrayVecIterator
\* The owning iterator: the cursor base, the snapshot len of the length and
\* the array moved out of the container.  A step leaves [it, ret, fault],
\* touched, the slots of data it indexed, and below, whether its index
\* arithmetic went below zero.
NoIter == [active |-> FALSE, base |-> 0, len |-> 0, data |-> new.data]

into_iter(v) == [active |-> TRUE, base |-> 0, len |-> v.len, data |-> v.data]

S(it, ret, fault, touched, below) ==
  [it |-> it, ret |-> ret, fault |-> fault, touched |-> touched,
   below |-> below]

\* data.as_slice_mut()[i] indexes the whole array: it panics from CAPACITY on.
iter_next(it) ==
  IF it.base < it.len
    THEN IF it.base < CAPACITY
           THEN S([it EXCEPT !.data[it.base] = Default, !.base = it.base + 1],
                  Some(it.data[it.base]), "none", {it.base}, FALSE)
           ELSE S(it, None, "out_of_bounds", {it.base}, FALSE)
    ELSE S(it, None, "none", {}, FALSE)

\* self.len - self.base
iter_count(it) == it.len - it.base

\* Some(replace(&mut data[self.len], default))
iter_last(it) ==
  IF it.len < CAPACITY
    THEN S([it EXCEPT !.data[it.len] = Default],
           Some(it.data[it.len]), "none", {it.len}, FALSE)
    ELSE S(it, None, "out_of_bounds", {it.len}, FALSE)

\* let i = self.base + (n - 1): n - 1 and the sum panic on overflow with
\* overflow checks and wrap without.
iter_nth(it, n, checks) ==
  IF n = 0 /\ checks
    THEN S(it, None, "arith_overflow", {}, TRUE)
    ELSE LET sum == it.base + ((n - 1) % UsizeModulus)
             i   == sum % UsizeModulus
         IN  IF checks /\ sum >= UsizeModulus
               THEN S(it, None, "arith_overflow", {}, n = 0)
               ELSE IF i < it.len
                      THEN IF i < CAPACITY
                             THEN S([it EXCEPT !.data[i] = Default,
                                               !.base = i + 1],
                                    Some(it.data[i]), "none", {i}, n = 0)
                             ELSE S(it, None, "out_of_bounds", {i}, n = 0)
                      ELSE S(it, None, "none", {}, n = 0)

\* ------------------------------------------------------------- state
\* av            the container the program works on
\* other         append's argument, as the call left it
\* split         the container split_off returned
\* ret, fault    what the last call returned, and the panic it ended in
\* last          the last call: its name, its arguments, the container before it,
\*               and for retain the number of calls of the predicate
\* drainIter     the live ArrayVecDrain borrowing av, if any
\* iter          the live ArrayVecIterator, if any; last then also holds the
\*               iterator before the step, the slots the step indexed and
\*               whether only next has been called on it
\* yielded       what that iterator has yielded so far
\* vec           a Vec given the same pushes and pops since new()
\* sinceNew      what has been called on av since new(): listed, only calls
\*               that returned of the operations that reset the slots they
\*               vacate; inBounds, no remove with an index beyond the last
\*               element
\* overflowChecks, needsDrop   the build's arithmetic overflow checks and
\*               needs_drop::<A::Item>(), both fixed for a run
VARIABLES av, other, split, ret, fault, last, drainIter, iter, yielded, vec,
          sinceNew, overflowChecks, needsDrop

vars == <<av, other, split, ret, fault, last, drainIter, iter, yielded, vec,
          sinceNew, overflowChecks, needsDrop>>
build == <<overflowChecks, needsDrop>>

Arrays == [Slots -> Items]
SeqsUpTo(n) == UNION { [1..k -> Items] : k \in 0..n }
\* Containers a caller builds with new() and pushes.
Others == { extend_from_slice(new, s).av : s \in SeqsUpTo(MaxOther) }

\* The record of a call on av: its name, arguments and the container before.
L(op) == [op |-> op, index |-> 0, arg |-> 0, item |-> Default, pre |-> av,
          keep |-> {}, f |-> <<Default>>, sli |-> <<>>, data |-> new.data,
          other |-> new, calls |-> 0, it |-> NoIter, touched |-> {},
          below |-> FALSE, count |-> 0, onlyNext |-> TRUE]

NoVec == [tracked |-> FALSE, items |-> <<>>, ret |-> None]

\* The operations that write the default into the slots they vacate;
\* truncate and clear do when they pop.
Vacating == {"push", "pop", "insert", "remove", "swap_remove", "split_off",
             "drain", "drain_next", "drain_drop"}
Since(op, index, f) ==
  [listed   |-> /\ sinceNew.listed
                /\ f = "none"
                /\ \/ op \in Vacating
                   \/ op \in {"truncate", "clear"} /\ needsDrop,
   inBounds |-> sinceNew.inBounds /\ (op = "remove" => index < av.len)]

Init ==
  /\ av = new
  /\ other = new
  /\ split = new
  /\ ret = None
  /\ fault = "none"
  /\ last = L("new")
  /\ drainIter = NoDrain
  /\ iter = NoIter
  /\ yielded = <<>>
  /\ vec = [tracked |-> TRUE, items |-> <<>>, ret |-> None]
  /\ sinceNew = [listed |-> TRUE, inBounds |-> TRUE]
  /\ overflowChecks \in BOOLEAN
  /\ needsDrop \in BOOLEAN

\* A panic ends the run; a live drain borrows av exclusively; the caller
\* starts a call when it is done with the previous call's result.
Running == fault = "none"
Free ==
  Running /\ ~drainIter.active /\ ~iter.active /\ last.op \in {"idle", "new"}

\* A call on av that leaves r = [av, ret, fault].
Apply(r, l) ==
  /\ av' = r.av
  /\ ret' = r.ret
  /\ fault' = r.fault
  /\ last' = l
  /\ other' = new
  /\ split' = new
  /\ yielded' = <<>>
  /\ vec' = NoVec
  /\ sinceNew' = Since(l.op, l.index, r.fault)
  /\ UNCHANGED <<drainIter, iter, build>>

New ==
  /\ Free
  /\ av' = new
  /\ ret' = None
  /\ last' = [L("new") EXCEPT !.pre = new]
  /\ other' = new
  /\ split' = new
  /\ yielded' = <<>>
  /\ vec' = [tracked |-> TRUE, items |-> <<>>, ret |-> None]
  /\ sinceNew' = [listed |-> TRUE, inBounds |-> TRUE]
  /\ UNCHANGED <<fault, drainIter, iter, build>>

\* A run builds its container once: new(), or an array wrapped in its place
\* before anything else is called.
Fresh == Free /\ last.op = "new"

\* The caller drops the previous call's results and goes on; the container
\* and the build stay as they are, the record of the call is cleared.
Proceed ==
  /\ Running /\ ~drainIter.active /\ ~iter.active
  /\ last.op \notin {"idle", "new"}
  /\ last' = L("idle")
  /\ ret' = None
  /\ other' = new
  /\ split' = new
  /\ yielded' = <<>>
  /\ vec' = [vec EXCEPT !.ret = None]
  /\ UNCHANGED <<av, fault, drainIter, sinceNew, iter, build>>

FromArray ==
  Fresh /\ \E data \in Arrays :
             Apply(R(from(data), None, "none"),
                   [L("from") EXCEPT !.data = data])

TryFromArrayLen ==
  Fresh /\ \E data \in Arrays, len \in Args :
             LET t == try_from_array_len(data, len)
             IN  Apply(R(IF t.ok THEN t.av ELSE av, t.err, "none"),
                       [L("try_from_array_len") EXCEPT !.data = data,
                                                       !.arg = len])

FromArrayLen ==
  Fresh /\ \E data \in Arrays, len \in Args :
             LET r == from_array_len(data, len)
             IN  Apply(IF r.fault = "none" THEN r ELSE [r EXCEPT !.av = av],
                       [L("from_array_len") EXCEPT !.data = data, !.arg = len])

\* Vec::push and Vec::pop on the reference vector.
VecPush(s, val) == Append(s, val)
VecPop(s) ==
  IF Len(s) = 0 THEN [items |-> s, ret |-> None]
                ELSE [items |-> SubSeq(s, 1, Len(s) - 1), ret |-> Some(s[Len(s)])]

Push ==
  Free /\ \E val \in Items :
            LET r == push(av, val)
            IN  /\ av' = r.av /\ ret' = r.ret /\ fault' = r.fault
                /\ last' = [L("push") EXCEPT !.item = val]
                /\ other' = new /\ split' = new /\ yielded' = <<>>
                /\ vec' = IF vec.tracked /\ r.fault = "none"
                            THEN [vec EXCEPT !.items = VecPush(vec.items, val),
                                             !.ret = None]
                            ELSE NoVec
                /\ sinceNew' = Since("push", 0, r.fault)
                /\ UNCHANGED <<drainIter, iter, build>>

Pop ==
  /\ Free
  /\ LET r == pop(av)
     IN  /\ av' = r.av /\ ret' = r.ret /\ fault' = r.fault
         /\ last' = L("pop")
         /\ other' = new /\ split' = new /\ yielded' = <<>>
         /\ vec' = IF vec.tracked /\ r.fault = "none"
                     THEN [tracked |-> TRUE, items |-> VecPop(vec.items).items,
                           ret |-> VecPop(vec.items).ret]
                     ELSE NoVec
         /\ sinceNew' = Since("pop", 0, r.fault)
         /\ UNCHANGED <<drainIter, iter, build>>

Insert ==
  Free /\ \E index \in Args, item \in Items :
            Apply(insert(av, index, item),
                  [L("insert") EXCEPT !.index = index, !.item = item])

Remove ==
  Free /\ \E index \in Args:
            Apply(remove(av, index, overflowChecks),
                  [L("remove") EXCEPT !.index = index])

SwapRemove ==
  Free /\ \E index \in Args :
            Apply(swap_remove(av, index),
                  [L("swap_remove") EXCEPT !.index = index])

Truncate ==
  Free /\ \E new_len \in Args:
            Apply(truncate(av, new_len, needsDrop),
                  [L("truncate") EXCEPT !.arg = new_len])

Clear ==
  Free /\ Apply(clear(av, needsDrop), L("clear"))

Resize ==
  Free /\ \E new_len \in Args, new_val \in Items:
            Apply(resize(av, new_len, new_val, needsDrop),
                  [L("resize") EXCEPT !.arg = new_len, !.item = new_val])

ResizeWith ==
  Free /\ \E new_len \in Args, f \in Generators:
            Apply(resize_with(av, new_len, f, needsDrop),
                  [L("resize_with") EXCEPT !.arg = new_len, !.f = f])

Retain ==
  Free /\ \E keep \in SUBSET Items:
            LET r == retain(av, keep, overflowChecks)
            IN  Apply(r, [L("retain") EXCEPT !.keep = keep,
                                             !.calls = r.calls])

SetLen ==
  Free /\ \E new_len \in Args :
            Apply(set_len(av, new_len), [L("set_len") EXCEPT !.arg = new_len])

ExtendFromSlice ==
  Free /\ \E sli \in SeqsUpTo(MaxSlice) :
            Apply(extend_from_slice(av, sli),
                  [L("extend_from_slice") EXCEPT !.sli = sli])

SplitOff ==
  Free /\ \E at \in Args :
            LET r == split_off(av, at)
            IN  /\ av' = r.av /\ split' = r.new /\ fault' = r.fault
                /\ ret' = None
                /\ last' = [L("split_off") EXCEPT !.index = at]
                /\ other' = new /\ yielded' = <<>>
                /\ vec' = NoVec
                /\ sinceNew' = Since("split_off", at, r.fault)
                /\ UNCHANGED <<drainIter, iter, build>>

AppendOther ==
  Free /\ \E o \in Others:
            LET r == append(av, o, overflowChecks)
            IN  /\ av' = r.av /\ other' = r.other /\ fault' = r.fault
                /\ ret' = None
                /\ last' = [L("append") EXCEPT !.other = o]
                /\ split' = new /\ yielded' = <<>>
                /\ vec' = NoVec
                /\ sinceNew' = Since("append", 0, r.fault)
                /\ UNCHANGED <<drainIter, iter, build>>

\* av.drain(range): last.index and last.arg are the computed start and end.
Drain ==
  Free /\ \E range \in Ranges :
            LET d == drain(av, range)
            IN  /\ drainIter' = d.it
                /\ fault' = d.fault
                /\ ret' = None
                /\ last' = [L("drain") EXCEPT !.index = RangeStart(range),
                                              !.arg = RangeEnd(av, range)]
                /\ other' = new /\ split' = new /\ yielded' = <<>>
                /\ vec' = NoVec
                /\ sinceNew' = Since("drain", 0, d.fault)
                /\ UNCHANGED <<av, iter, build>>

\* One next() of the live iterator; last.pre stays the container drained.
DrainNext ==
  /\ Running /\ drainIter.active
  /\ LET n == DrainNextOf(av, drainIter, overflowChecks)
       IN  /\ av' = n.av /\ drainIter' = n.it /\ ret' = n.ret
           /\ fault' = n.fault
           /\ yielded' = yielded \o n.ret
           /\ last' = [last EXCEPT !.op = "drain_next"]
           /\ sinceNew' = Since("drain_next", 0, n.fault)
           /\ UNCHANGED <<other, split, vec, iter, build>>

\* The iterator goes out of scope: Drop runs it to the end.
DrainDrop ==
  /\ Running /\ drainIter.active
  /\ LET d == DrainDropOf(av, drainIter, overflowChecks)
       IN  /\ av' = d.av /\ fault' = d.fault
           /\ drainIter' = NoDrain
           /\ ret' = None
           /\ last' = [last EXCEPT !.op = "drain_drop"]
           /\ sinceNew' = Since("drain_drop", 0, d.fault)
           /\ UNCHANGED <<other, split, yielded, vec, iter, build>>

\* into_iter(self) moves the container into the iterator; the caller's next
\* container is a new() one.
IntoIter ==
  /\ Free
  /\ iter' = into_iter(av)
  /\ av' = new
  /\ ret' = None
  /\ last' = L("into_iter")
  /\ other' = new /\ split' = new /\ yielded' = <<>>
  /\ vec' = [tracked |-> TRUE, items |-> <<>>, ret |-> None]
  /\ sinceNew' = [listed |-> TRUE, inBounds |-> TRUE]
  /\ UNCHANGED <<fault, drainIter, build>>

\* One next() of the live owning iterator; last.pre stays the container
\* it was made from.
IterNext ==
  /\ Running /\ iter.active
  /\ LET s == iter_next(iter)
     IN  /\ iter' = s.it /\ ret' = s.ret /\ fault' = s.fault
         /\ yielded' = yielded \o s.ret
         /\ last' = [last EXCEPT !.op = "iter_next", !.arg = 0, !.it = iter,
                                 !.touched = s.touched, !.below = s.below]
         /\ UNCHANGED <<av, other, split, vec, sinceNew, drainIter, build>>

IterNth ==
  /\ Running /\ iter.active
  /\ \E n \in Args :
       LET s == iter_nth(iter, n, overflowChecks)
       IN  /\ iter' = s.it /\ ret' = s.ret /\ fault' = s.fault
           /\ yielded' = <<>>
           /\ last' = [last EXCEPT !.op = "iter_nth", !.arg = n, !.it = iter,
                                   !.touched = s.touched, !.below = s.below,
                                   !.onlyNext = FALSE]
           /\ UNCHANGED <<av, other, split, vec, sinceNew, drainIter, build>>

\* count(self) and last(self) take the iterator: it is gone afterwards.
IterCount ==
  /\ Running /\ iter.active
  /\ iter' = NoIter
  /\ ret' = None
  /\ yielded' = <<>>
  /\ last' = [last EXCEPT !.op = "iter_count", !.arg = 0, !.it = iter,
                          !.touched = {}, !.below = FALSE,
                          !.count = iter_count(iter)]
  /\ UNCHANGED <<av, other, split, vec, sinceNew, fault, drainIter, build>>

IterLast ==
  /\ Running /\ iter.active
  /\ LET s == iter_last(iter)
     IN  /\ iter' = NoIter /\ ret' = s.ret /\ fault' = s.fault
         /\ yielded' = <<>>
         /\ last' = [last EXCEPT !.op = "iter_last", !.arg = 0, !.it = iter,
                                 !.touched = s.touched, !.below = s.below]
         /\ UNCHANGED <<av, other, split, vec, sinceNew, drainIter, build>>

\* The iterator goes out of scope; ArrayVecIterator has no Drop of its own.
IterDrop ==
  /\ Running /\ iter.active
  /\ iter' = NoIter
  /\ ret' = None
  /\ yielded' = <<>>
  /\ last' = [last EXCEPT !.op = "iter_drop", !.arg = 0, !.it = iter,
                          !.touched = {}, !.below = FALSE]
  /\ UNCHANGED <<av, other, split, vec, sinceNew, fault, drainIter, build>>

Next ==
  \/ New \/ FromArray \/ TryFromArrayLen \/ FromArrayLen
  \/ Push \/ Pop \/ Insert \/ Remove \/ SwapRemove
  \/ Truncate \/ Clear \/ Resize \/ ResizeWith \/ Retain \/ SetLen
  \/ ExtendFromSlice \/ SplitOff \/ AppendOther
  \/ Drain \/ DrainNext \/ DrainDrop
  \/ IntoIter \/ IterNext \/ IterNth \/ IterCount \/ IterLast \/ IterDrop
  \/ Proceed

Spec == Init /\ [][Next]_vars

\* ------------------------------------------------------------- claims
\* The live elements of v that exist: the slots below len.
LiveSlots(v) == { k \in Slots : k < v.len }

\* v holds w's live elements with the slots a..b-1 cut out.
Excised(v, w, a, b) ==
  /\ v.len = w.len - (b - a)
  /\ \A k \in LiveSlots(v) :
       v.data[k] = IF k < a THEN w.data[k] ELSE w.data[k + (b - a)]

\* C1: in every state reached by calls that returned, 0 <= len <= CAPACITY.
\* Stated as the claim has it; remove on an empty container breaks it.
C1_LenWithinCapacity ==
  Running => (0 <= av.len /\ av.len <= CAPACITY)

\* C2: under pushes and pops from new(), the live prefix equals the contents
\* of a Vec given the same calls, and every pop returns what the Vec's pop
\* returns.
C2_PushPopRefinesVec ==
  vec.tracked =>
    /\ DerefOk(av)
    /\ as_slice(av) = vec.items
    /\ (last.op = "pop" => ret = vec.ret)

C2_Witness ==
  /\ vec.tracked
  /\ last.op = "pop"
  /\ ret = Some("a")
  /\ vec.items = <<"b", "a">>

\* C3: push on a full container panics with the capacity overflow and leaves
\* len and every slot as they were.
C3_PushFullUnchanged ==
  (last.op = "push" /\ last.pre.len = CAPACITY) =>
    (fault = "capacity_overflow" /\ av = last.pre)

C3_Witness ==
  /\ last.op = "push"
  /\ last.pre.len = CAPACITY
  /\ last.item = "a"
  /\ fault = "capacity_overflow"

\* C4: insert(i, v) with len < CAPACITY and i <= len: the length grows by
\* one, slot i holds v, the slots below i are unchanged and the elements that
\* were at i..len-1 are at i+1..len in the same order.
C4_InsertShiftsRight ==
  (last.op = "insert" /\ last.pre.len < CAPACITY
                      /\ last.index <= last.pre.len) =>
    /\ fault = "none"
    /\ av.len = last.pre.len + 1
    /\ av.data[last.index] = last.item
    /\ \A k \in LiveSlots(last.pre) :
         IF k < last.index THEN av.data[k] = last.pre.data[k]
                           ELSE av.data[k + 1] = last.pre.data[k]

C4_Witness ==
  /\ last.op = "insert"
  /\ last.index = 0
  /\ last.item = "b"
  /\ DerefOk(last.pre)
  /\ as_slice(last.pre) = <<"a", "b">>
  /\ as_slice(av) = <<"b", "a", "b">>

\* C5: remove(i) with i < len returns the element at i, shrinks the length
\* by one, leaves the slots below i unchanged and moves the elements after i
\* one slot down in the same order.  Stated for every container, as the claim
\* has it.
C5_RemoveShiftsLeft ==
  (last.op = "remove" /\ last.index < last.pre.len) =>
    /\ fault = "none"
    /\ ret = Some(last.pre.data[last.index])
    /\ Excised(av, last.pre, last.index, last.index + 1)

\* C5 on the containers whose length is within the capacity.
C5_RemoveWithinCapacity ==
  (last.op = "remove" /\ last.index < last.pre.len /\ DerefOk(last.pre)) =>
    /\ fault = "none"
    /\ ret = Some(last.pre.data[last.index])
    /\ Excised(av, last.pre, last.index, last.index + 1)

C5_Witness ==
  /\ last.op = "remove"
  /\ last.index = 0
  /\ DerefOk(last.pre)
  /\ as_slice(last.pre) = <<"a", "b", "a">>
  /\ ret = Some("a")
  /\ as_slice(av) = <<"b", "a">>

\* C6: remove(index) with index >= len panics with the out-of-bounds fault,
\* returns nothing and changes neither the length nor the elements.
C6_RemoveOutOfBoundsFails ==
  (last.op = "remove" /\ last.index >= last.pre.len) =>
    (fault = "out_of_bounds" /\ ret = None /\ av = last.pre)

\* The drain under way or just released was created on a <= b <= len.
DrainStart == last.index
DrainEnd == last.arg
DrainValidated == DrainStart <= DrainEnd /\ DrainEnd <= last.pre.len

\* C7: stepping drain(a..b), a <= b <= len, yields the elements that were at
\* a..b-1 in order and then nothing; once exhausted the container is the
\* original with a..b-1 cut out.  Stated for every container.
C7_DrainYieldsRange ==
  (last.op \in {"drain", "drain_next"} /\ DrainValidated) =>
    /\ fault = "none"
    /\ Len(yielded) <= DrainEnd - DrainStart
    /\ \A k \in 1..Len(yielded) :
         yielded[k] = last.pre.data[DrainStart + k - 1]
    /\ drainIter.target_count = (DrainEnd - DrainStart) - Len(yielded)
    /\ (last.op = "drain_next" /\ ret = None) =>
         Len(yielded) = DrainEnd - DrainStart
    /\ Len(yielded) = DrainEnd - DrainStart =>
         Excised(av, last.pre, DrainStart, DrainEnd)

\* C7 on the containers whose length is within the capacity.
C7_DrainWithinCapacity ==
  DerefOk(last.pre) => C7_DrainYieldsRange

C7_Witness ==
  /\ last.op = "drain_next"
  /\ DrainStart = 1 /\ DrainEnd = 3
  /\ DerefOk(last.pre)
  /\ as_slice(last.pre) = <<"a", "b", "a">>
  /\ yielded = <<"b", "a">>
  /\ ret = None
  /\ as_slice(av) = <<"a">>

\* C8: releasing the iterator of drain(a..b) after any number of steps leaves
\* the original with the whole of a..b-1 cut out.  Stated for every container.
C8_DropCompletesDrain ==
  (last.op = "drain_drop" /\ DrainValidated) =>
    /\ fault = "none"
    /\ ~drainIter.active
    /\ Excised(av, last.pre, DrainStart, DrainEnd)

\* C8 on the containers whose length is within the capacity.
C8_DropWithinCapacity ==
  DerefOk(last.pre) => C8_DropCompletesDrain

C8_Witness ==
  /\ last.op = "drain_drop"
  /\ DrainStart = 0 /\ DrainEnd = 2
  /\ DerefOk(last.pre)
  /\ as_slice(last.pre) = <<"a", "b", "a">>
  /\ yielded = <<"a">>
  /\ as_slice(av) = <<"a">>

\* C9: drain panics with the invalid-range fault when start > end and with
\* the out-of-bounds fault when start <= end and end > len; either way there
\* is no iterator and the container is unchanged.
C9_DrainRejectsBadRange ==
  last.op = "drain" =>
    /\ DrainStart > DrainEnd =>
         (fault = "invalid_range" /\ ~drainIter.active /\ av = last.pre)
    /\ (DrainStart <= DrainEnd /\ DrainEnd > last.pre.len) =>
         (fault = "out_of_bounds" /\ ~drainIter.active /\ av = last.pre)

C9_Witness ==
  /\ last.op = "drain"
  /\ DrainStart = 3 /\ DrainEnd = 2
  /\ last.pre.len = 1
  /\ fault = "invalid_range"

\* C10: append with self.len + other.len <= CAPACITY leaves self's elements
\* followed by other's in their order, and other empty.
C10_AppendMovesAll ==
  (last.op = "append" /\ last.pre.len + last.other.len <= CAPACITY) =>
    /\ fault = "none"
    /\ as_slice(av) = as_slice(last.pre) \o as_slice(last.other)
    /\ other.len = 0

C10_Witness ==
  /\ last.op = "append"
  /\ DerefOk(last.pre) /\ DerefOk(av)
  /\ as_slice(last.pre) = <<"b">>
  /\ as_slice(last.other) = <<"a", "b">>
  /\ as_slice(av) = <<"b", "a", "b">>
  /\ other.len = 0

\* v and w have the same length and the same live elements.
SameLive(v, w) ==
  /\ v.len = w.len
  /\ \A k \in LiveSlots(w) : v.data[k] = w.data[k]

\* C11: append with self.len + other.len > CAPACITY panics with the capacity
\* overflow and leaves both containers with the length and the live elements
\* they had before the call.
C11_AppendOverflowUnchanged ==
  (last.op = "append" /\ DerefOk(last.pre)
                      /\ last.pre.len + last.other.len > CAPACITY) =>
    /\ fault = "capacity_overflow"
    /\ SameLive(av, last.pre)
    /\ SameLive(other, last.other)

\* What append does on that input: it panics, self is filled up to the
\* capacity with the first elements of other, and other is emptied.
C11_Witness ==
  /\ last.op = "append"
  /\ DerefOk(last.pre)
  /\ as_slice(last.pre) = <<"a", "b">>
  /\ as_slice(last.other) = <<"b", "a">>
  /\ fault = "capacity_overflow"
  /\ as_slice(av) = <<"a", "b", "b">>
  /\ other.len = 0

\* C12: split_off(at) with at <= len returns a container of length len - at
\* holding the elements that were at at..len-1 in order, and leaves self with
\* length at and its elements below at unchanged.  Stated for every container.
C12_SplitOffMoves ==
  (last.op = "split_off" /\ last.index <= last.pre.len) =>
    /\ fault = "none"
    /\ split.len = last.pre.len - last.index
    /\ \A k \in LiveSlots(split) : split.data[k] = last.pre.data[last.index + k]
    /\ av.len = last.index
    /\ \A k \in LiveSlots(av) : av.data[k] = last.pre.data[k]

\* C12 on the containers whose length is within the capacity.
C12_SplitOffWithinCapacity ==
  DerefOk(last.pre) => C12_SplitOffMoves

C12_Witness ==
  /\ last.op = "split_off"
  /\ last.index = 1
  /\ DerefOk(last.pre)
  /\ as_slice(last.pre) = <<"a", "b", "a">>
  /\ fault = "none"
  /\ as_slice(av) = <<"a">>
  /\ as_slice(split) = <<"b", "a">>

\* C13: swap_remove(i) with i < len returns the element at i and shrinks the
\* length by one; the previously last element sits at i unless i was the last
\* live slot, and every other remaining slot keeps its element.  Stated for
\* every container.
C13_SwapRemoveFillsHole ==
  (last.op = "swap_remove" /\ last.index < last.pre.len) =>
    /\ fault = "none"
    /\ ret = Some(last.pre.data[last.index])
    /\ av.len = last.pre.len - 1
    /\ \A k \in LiveSlots(av) :
         av.data[k] = IF k = last.index THEN last.pre.data[last.pre.len - 1]
                                        ELSE last.pre.data[k]
    /\ last.index = last.pre.len - 1 => av = pop(last.pre).av

\* C13 on the containers whose length is within the capacity.
C13_SwapRemoveWithinCapacity ==
  DerefOk(last.pre) => C13_SwapRemoveFillsHole

C13_Witness ==
  /\ last.op = "swap_remove"
  /\ last.index = 0
  /\ DerefOk(last.pre)
  /\ as_slice(last.pre) = <<"a", "d", "b">>
  /\ ret = Some("a")
  /\ as_slice(av) = <<"b", "d">>

\* C14: insert with index > len, swap_remove with index >= len and split_off
\* with at > len each panic with the out-of-bounds fault and leave the length
\* and the elements as they were; nothing is clamped or cut.
C14_OutOfBoundsUnchanged ==
  /\ (last.op = "insert" /\ last.index > last.pre.len) =>
       (fault = "out_of_bounds" /\ av = last.pre)
  /\ (last.op = "swap_remove" /\ last.index >= last.pre.len) =>
       (fault = "out_of_bounds" /\ ret = None /\ av = last.pre)
  /\ (last.op = "split_off" /\ last.index > last.pre.len) =>
       (fault = "out_of_bounds" /\ av = last.pre /\ split = new)

C14_Witness ==
  /\ last.op = "insert"
  /\ last.index = 3
  /\ last.item = "b"
  /\ DerefOk(last.pre)
  /\ as_slice(last.pre) = <<"a", "b">>
  /\ fault = "out_of_bounds"
  /\ av = last.pre

\* C15: truncate(n) with n >= len changes neither the length nor the live
\* elements; truncate(n) twice leaves what truncate(n) once leaves; the
\* popping path and the counter-only path both end with the length
\* min(len, n) and the same live prefix.  clear is truncate(0).
C15_TruncateIdempotent ==
  last.op \in {"truncate", "clear"} =>
    LET n       == last.arg
        twice   == truncate(av, n, needsDrop)
        popping == truncate(last.pre, n, TRUE)
        cutting == truncate(last.pre, n, FALSE)
    IN  /\ fault = "none"
        /\ n >= last.pre.len => SameLive(av, last.pre)
        /\ twice.fault = "none" /\ SameLive(twice.av, av)
        /\ popping.fault = "none" /\ cutting.fault = "none"
        /\ popping.av.len = Min(last.pre.len, n)
        /\ cutting.av.len = Min(last.pre.len, n)
        /\ SameLive(popping.av, cutting.av)
        /\ av.len = Min(last.pre.len, n)
        /\ \A k \in LiveSlots(av) : av.data[k] = last.pre.data[k]

\* C15 on the containers whose length is within the capacity.
C15_TruncateWithinCapacity ==
  DerefOk(last.pre) => C15_TruncateIdempotent

C15_Witness ==
  /\ last.op = "truncate"
  /\ last.arg = 1
  /\ needsDrop
  /\ DerefOk(last.pre)
  /\ as_slice(last.pre) = <<"a", "b", "a">>
  /\ as_slice(av) = <<"a">>
  /\ truncate(av, 1, needsDrop).av = av
  /\ as_slice(truncate(last.pre, 1, FALSE).av) = <<"a">>

\* C16: set_len(n) with n <= CAPACITY sets the length to n and leaves every
\* slot of the storage as it was; with n > CAPACITY it panics and leaves the
\* length and the storage as they were.
C16_SetLenKeepsStorage ==
  last.op = "set_len" =>
    /\ av.data = last.pre.data
    /\ last.arg <= CAPACITY => (fault = "none" /\ av.len = last.arg)
    /\ last.arg > CAPACITY =>
         (fault = "capacity_overflow" /\ av.len = last.pre.len)

\* set_len(2) uncovers a slot that still holds a value.
C16_Witness ==
  /\ last.op = "set_len"
  /\ last.arg = 2
  /\ last.pre.len = 1
  /\ last.pre.data[1] = "b"
  /\ fault = "none"
  /\ av.len = 2
  /\ av.data = last.pre.data

\* C17: try_from_array_len(buffer, len) gives a container with len live
\* elements equal to buffer[0..len) when len <= CAPACITY, and otherwise
\* returns, without a panic, the error carrying the buffer as it was given;
\* from_array_len panics exactly where the fallible form returns the error.
C17_TryFromArrayLen ==
  /\ last.op = "try_from_array_len" =>
       /\ fault = "none"
       /\ last.arg <= CAPACITY =>
            /\ ret = None
            /\ av.len = last.arg
            /\ \A k \in LiveSlots(av) : av.data[k] = last.data[k]
       /\ last.arg > CAPACITY => ret = Some(last.data)
  /\ last.op = "from_array_len" =>
       /\ fault # "none" <=> ~try_from_array_len(last.data, last.arg).ok
       /\ fault # "none" <=> last.arg > CAPACITY
       /\ fault = "none" => av = try_from_array_len(last.data, last.arg).av

C17_Witness ==
  /\ last.op = "try_from_array_len"
  /\ last.arg = CAPACITY + 1
  /\ last.data[0] = "a" /\ last.data[1] = "b"
  /\ fault = "none"
  /\ ret = Some(last.data)

\* C18: after retain(predicate) the live elements are the original elements
\* that satisfy the predicate, in their original order, and the predicate has
\* been called once per original element.  Stated for every container.
C18_RetainKeepsAccepted ==
  last.op = "retain" =>
    LET acceptable(x) == x \in last.keep
    IN  /\ fault = "none"
        /\ DerefOk(av)
        /\ as_slice(av) = SelectSeq(as_slice(last.pre), acceptable)
        /\ last.calls = last.pre.len

\* C18 on the containers whose length is within the capacity.
C18_RetainWithinCapacity ==
  DerefOk(last.pre) => C18_RetainKeepsAccepted

C18_Witness ==
  /\ last.op = "retain"
  /\ last.keep = {"a"}
  /\ DerefOk(last.pre)
  /\ as_slice(last.pre) = <<"b", "a", "b">>
  /\ fault = "none"
  /\ as_slice(av) = <<"a">>
  /\ last.calls = 3

\* C19: after resize(n, value) or resize_with(n, f) with n <= CAPACITY the
\* length is n, the first min(old length, n) elements are unchanged, and the
\* slots from the old length up to n hold value, or what the successive calls
\* of f returned, in call order.
C19_ResizeFills ==
  (last.op \in {"resize", "resize_with"} /\ last.arg <= CAPACITY) =>
    /\ fault = "none"
    /\ av.len = last.arg
    /\ \A k \in LiveSlots(av) :
         av.data[k] = IF k < last.pre.len THEN last.pre.data[k]
                      ELSE IF last.op = "resize" THEN last.item
                      ELSE Call(last.f, k - last.pre.len + 1)

\* C19 on the containers whose length is within the capacity.
C19_ResizeWithinCapacity ==
  DerefOk(last.pre) => C19_ResizeFills

C19_Witness ==
  /\ last.op = "resize_with"
  /\ last.arg = 3
  /\ last.f = <<"a", "b">>
  /\ DerefOk(last.pre)
  /\ as_slice(last.pre) = <<"b">>
  /\ fault = "none"
  /\ as_slice(av) = <<"b", "a", "b">>

\* Every slot of v from len up to the capacity holds the default.
SpareDefault(v) == \A k \in Slots : k >= v.len => v.data[k] = Default

\* C20: from new(), after any sequence of calls that returned of push, pop,
\* insert, remove, swap_remove, split_off, drain (stepped or released) and
\* the popping truncate and clear, every spare slot holds the default.
C20_SpareSlotsDefault ==
  sinceNew.listed => (SpareDefault(av) /\ SpareDefault(split))

\* C20 when no remove was given an index beyond the last element.
C20_SpareDefaultInBounds ==
  sinceNew.inBounds => C20_SpareSlotsDefault

C20_Witness ==
  /\ sinceNew.listed
  /\ last.op = "remove"
  /\ last.index = 0
  /\ DerefOk(last.pre)
  /\ as_slice(last.pre) = <<"a", "b", "a">>
  /\ as_slice(av) = <<"b", "a">>
  /\ av.data[2] = Default

IterOps == {"iter_next", "iter_nth", "iter_last", "iter_count"}

\* C21: every slot a next, nth(n) or last of the owning iterator indexes lies
\* in [base, len) of the iterator it is called on, and its index arithmetic
\* never goes below zero.
C21_IteratorInBounds ==
  last.op \in IterOps =>
    /\ ~last.below
    /\ \A k \in last.touched : last.it.base <= k /\ k < last.it.len

\* next alone stays within [base, len).
C21_NextInBounds ==
  last.op = "iter_next" => C21_IteratorInBounds

\* What last does on a container with a spare slot: it indexes slot len.
C21_Witness ==
  /\ last.op = "iter_last"
  /\ DerefOk(last.pre)
  /\ as_slice(last.pre) = <<"a", "b">>
  /\ last.it.base = 0
  /\ last.touched = {2}
  /\ fault = "none"

\* What repeated next() would still yield from it: the slots base..len-1.
Remaining(it) == [k \in 1..(it.len - it.base) |-> it.data[it.base + k - 1]]

\* next yields the head of what remains and moves past it; with only next
\* called the iterator yields the live elements once each, in order.
NextYieldsLive ==
  last.op = "iter_next" =>
    LET rem == Remaining(last.it)
    IN  /\ fault = "none"
        /\ ret = IF Len(rem) = 0 THEN None ELSE Some(rem[1])
        /\ Remaining(iter) = IF Len(rem) = 0 THEN rem ELSE Tail(rem)
        /\ last.onlyNext =>
             /\ Len(yielded) <= last.pre.len
             /\ yielded = SubSeq(as_slice(last.pre), 1, Len(yielded))
             /\ ret = None => yielded = as_slice(last.pre)

CountAgrees ==
  last.op = "iter_count" => last.count = Len(Remaining(last.it))

NthAgrees ==
  last.op = "iter_nth" =>
    LET rem == Remaining(last.it)
    IN  /\ fault = "none"
        /\ ret = IF last.arg < Len(rem) THEN Some(rem[last.arg + 1]) ELSE None
        /\ last.arg < Len(rem) => iter.base = last.it.base + last.arg + 1

LastAgrees ==
  last.op = "iter_last" =>
    LET rem == Remaining(last.it)
    IN  /\ fault = "none"
        /\ ret = IF Len(rem) = 0 THEN None ELSE Some(rem[Len(rem)])

\* C22: on an iterator made from a container within its capacity, next
\* yields the live elements once each in order and then nothing, count is
\* the number next would still yield, nth(n) is what the (n+1)-th next would
\* return with the cursor just past it, and last is the final element next
\* would yield.
C22_IteratorAgreesWithNext ==
  DerefOk(last.pre) =>
    (NextYieldsLive /\ CountAgrees /\ NthAgrees /\ LastAgrees)

\* The next and count parts of C22.
C22_NextAndCountAgree ==
  DerefOk(last.pre) => (NextYieldsLive /\ CountAgrees)

\* What nth(1) does: it returns the element the first next would return.
C22_Witness ==
  /\ last.op = "iter_nth"
  /\ last.arg = 1
  /\ DerefOk(last.pre)
  /\ as_slice(last.pre) = <<"a", "b", "a">>
  /\ last.it.base = 0
  /\ fault = "none"
  /\ ret = Some("a")
  /\ iter.base = 1

\* C23: insert(i, v) with i < len on a full container panics with the
\* capacity overflow and leaves the length and the live elements as they
\* were.
C23_InsertFullUnchanged ==
  (last.op = "insert" /\ last.pre.len = CAPACITY
                      /\ last.index < last.pre.len) =>
    (fault = "capacity_overflow" /\ SameLive(av, last.pre))

\* The panic itself does happen on every such call.
C23_InsertFullPanics ==
  (last.op = "insert" /\ last.pre.len = CAPACITY
                      /\ last.index < last.pre.len) =>
    (fault = "capacity_overflow" /\ av.len = last.pre.len)

\* What the failed insert leaves: the value at i, the elements from i on one
\* slot up, the last one gone.
C23_Witness ==
  /\ last.op = "insert"
  /\ last.index = 0
  /\ last.item = "d"
  /\ as_slice(last.pre) = <<"a", "b", "b">>
  /\ fault = "capacity_overflow"
  /\ as_slice(av) = <<"d", "a", "b">>

\* While the draining iterator exists its range lies within the parent and
\* starts where the drain was asked to start, so a remove it issues has an
\* index below the parent's length.
DrainWithinParent ==
  drainIter.active =>
    /\ drainIter.target_index + drainIter.target_count <= av.len
    /\ drainIter.target_index = DrainStart
    /\ drainIter.target_count > 0 => drainIter.target_index < av.len

\* A step of the iterator that removes an element takes one off target_count
\* and one off the parent's length, and leaves target_index alone.
DrainStepTakesOne ==
  (drainIter.active /\ drainIter.target_count > 0
     /\ drainIter'.active /\ fault' = "none") =>
    /\ drainIter'.target_count = drainIter.target_count - 1
    /\ av'.len = av.len - 1
    /\ drainIter'.target_index = drainIter.target_index

====
